---- MODULE Spec2Model ----
(***************************************************************************)
(* Ward resolution pipeline of fix-maps: the useGeoJSON acquisition hook   *)
(* (cache slot in AsyncStorage, remote fetch, simplify), the useWards      *)
(* facade and the geometry helpers of geoUtils.js.                         *)
(*                                                                         *)
(* Time is counted in clock steps of ClockStepHours hours.  Coordinates    *)
(* are integers; a coordinate pair is <<longitude, latitude>> as in        *)
(* GeoJSON.  JavaScript values that can be absent are tagged records:      *)
(* Undef for undefined, Num(n) and Str(s) for property values.             *)
(***************************************************************************)
EXTENDS Integers, Sequences, FiniteSets, TLC

VARIABLES
  geoJsonData,   \* useState: the held dataset (NullData before any load)
  loading,       \* useState: loading flag
  error,         \* useState: error string, or Null
  storage,       \* the AsyncStorage slot under GEOJSON_CACHE_KEY
  storageOk,     \* whether the persistence layer currently works
  now,           \* Date.now(), in clock steps
  loads,         \* the invocations of loadGeoJSON: locals and position
  nLoads,        \* how many invocations of loadGeoJSON were started
  pendingRemove, \* removeItem calls of refreshGeoJSON still in flight
  unhandled,     \* promise rejections nobody handled
  fetches,       \* remote fetches issued
  refreshes,     \* refreshGeoJSON invocations
  query          \* one call of a geometry function: its inputs and result

pipeline == <<geoJsonData, loading, error, storage, storageOk, now, loads,
              nLoads, pendingRemove, unhandled, fetches, refreshes>>

vars == <<pipeline, query>>

----------------------------------------------------------------------------
(* Bounds of the model *)

MaxRefresh == 1
MaxTime == 1
MaxFeatures == 2
ClockStepHours == 16

(* Program constants *)

CACHE_EXPIRY_HOURS == 24

----------------------------------------------------------------------------
(* JavaScript values *)

Null == "<null>"
Undef == [undef |-> TRUE]

\* undefined or null where the code expects an array (a missing ring, arr[0]
\* of an empty array): a value that is no sequence and equals none
NoArray == [i \in {0} |-> 0]
Num(n) == [num |-> n]
Str(s) == [str |-> s]

Truthy(v) == v # Undef /\ v # Num(0) /\ v # Str("")

\* a || b
Or(a, b) == IF Truthy(a) THEN a ELSE b

\* obj?.[k]
Get(p, k) == IF k \in DOMAIN p THEN p[k] ELSE Undef

\* `${v}`
Template(v) ==
  IF v = Undef THEN "undefined"
  ELSE IF "num" \in DOMAIN v THEN ToString(v.num)
  ELSE v.str

----------------------------------------------------------------------------
(* Datasets *)

NullData == [type |-> "null"]
EmptyCollection == [type |-> "FeatureCollection", features |-> <<>>]
FeatureCollection(fs) == [type |-> "FeatureCollection", features |-> fs]

WellFormed(d) == d.type = "FeatureCollection" /\ "features" \in DOMAIN d

NoGeometry == [type |-> "none"]
Polygon(rings) == [type |-> "Polygon", coordinates |-> rings]
MultiPolygon(polys) == [type |-> "MultiPolygon", coordinates |-> polys]
\* a Polygon geometry whose coordinates array is missing
BrokenPolygon == [type |-> "Polygon"]

Feature(g, p) == [geometry |-> g, properties |-> p]

\* the square ward over lat, lon in [-1, 1]
SquareRing == << <<-1, -1>>, <<1, -1>>, <<1, 1>>, <<-1, 1>>, <<-1, -1>> >>
\* the same square with a vertex in the middle of its southern edge
SquareRingDense ==
  << <<-1, -1>>, <<0, -1>>, <<1, -1>>, <<1, 1>>, <<-1, 1>>, <<-1, -1>> >>
\* a square east of it, over lon in [2, 4], lat in [-1, 1]
EastRing == << <<2, -1>>, <<4, -1>>, <<4, 1>>, <<2, 1>>, <<2, -1>> >>

PropsA == [id |-> Num(1), name |-> Str("Alpha"), municipality |-> Str("M")]
PropsB == [WARD_ID |-> Num(2), MUNICIPALITY |-> Str("M")]
PropsC == [ward_id |-> Num(3), ward_name |-> Str("Gamma")]

WardA == Feature(Polygon(<<SquareRing>>), PropsA)
WardADense == Feature(Polygon(<<SquareRingDense>>), PropsA)
WardB == Feature(Polygon(<<EastRing>>), PropsB)
WardBroken == Feature(BrokenPolygon, PropsC)

\* what the remote source serves: the square ward, its ring not yet simplified
RemoteDatasets == { FeatureCollection(<<WardADense>>) }

----------------------------------------------------------------------------
(* geoUtils.js *)

NullObj == [null |-> TRUE]
Point(lat, lng) == [latitude |-> lat, longitude |-> lng]

\* the edge from vertex j to vertex i toggles the parity: the test of the
\* loop body of isPointInPolygon, with the division cleared exactly
EdgeToggles(lat, lng, pi, pj) ==
  LET xi == pi[1]  yi == pi[2]
      xj == pj[1]  yj == pj[2]
      dy == yj - yi
  IN  /\ (yi > lat) # (yj > lat)
      /\ IF dy > 0
           THEN (lng - xi) * dy < (xj - xi) * (lat - yi)
           ELSE (lng - xi) * dy > (xj - xi) * (lat - yi)

\* a loop that never visits the edge from the last vertex back to the first
isPointInPolygonOpenLoop(point, polygon) ==
  IF point = NullObj \/ polygon = NoArray THEN FALSE
  ELSE IF Len(polygon) < 3 THEN FALSE
  ELSE LET n == Len(polygon)
           toggles == { i \in 2..n :
                          EdgeToggles(point.latitude, point.longitude,
                                      polygon[i], polygon[i - 1]) }
       IN  Cardinality(toggles) % 2 = 1

\* a guard that answers as isPointInBounds does when an argument is missing
isPointInPolygonLenient(point, polygon) ==
  IF point = NullObj \/ polygon = NoArray THEN TRUE
  ELSE IF Len(polygon) < 3 THEN FALSE
  ELSE LET n == Len(polygon)
           toggles == { i \in 1..n :
                          EdgeToggles(point.latitude, point.longitude,
                                      polygon[i],
                                      polygon[IF i = 1 THEN n ELSE i - 1]) }
       IN  Cardinality(toggles) % 2 = 1

isPointInPolygon(point, polygon) ==
  IF point = NullObj \/ polygon = NoArray THEN FALSE
  ELSE IF Len(polygon) < 3 THEN FALSE
  ELSE LET n == Len(polygon)
           toggles == { i \in 1..n :
                          EdgeToggles(point.latitude, point.longitude,
                                      polygon[i],
                                      polygon[IF i = 1 THEN n ELSE i - 1]) }
       IN  Cardinality(toggles) % 2 = 1

\* arr[0]
First(arr) == IF Len(arr) > 0 THEN arr[1] ELSE NoArray

\* a search that stops at the first polygon of a MultiPolygon
FirstPolygonContains(point, polys) ==
  Len(polys) > 0 /\ isPointInPolygon(point, First(polys[1]))

\* the MultiPolygon branch of findWardForPoint: some polygon's outer ring
\* contains the point
AnyPolygonContains(point, polys) ==
  \E k \in 1..Len(polys) : isPointInPolygon(point, First(polys[k]))

\* the result of the loop body of findWardForPoint for one feature:
\* "match", "skip" (next feature) or "throw" (a TypeError)
FeatureTest(point, feature) ==
  LET g == feature.geometry IN
  IF g = NoGeometry THEN "skip"
  ELSE IF g.type = "Polygon" THEN
    IF "coordinates" \notin DOMAIN g THEN "throw"
    ELSE IF isPointInPolygon(point, First(g.coordinates)) THEN "match"
    ELSE "skip"
  ELSE IF g.type = "MultiPolygon" THEN
    IF "coordinates" \notin DOMAIN g THEN "throw"
    ELSE IF AnyPolygonContains(point, g.coordinates) THEN "match"
    ELSE "skip"
  ELSE "skip"

\* what a TypeError thrown by the loop body does to the search: the
\* try/catch encloses the whole loop, so the search ends with null
OnFeatureError(point, fs, i) == NullObj

RECURSIVE SearchFrom(_, _, _)
SearchFrom(point, fs, i) ==
  IF i > Len(fs) THEN NullObj
  ELSE LET r == FeatureTest(point, fs[i]) IN
       IF r = "match" THEN fs[i]
       ELSE IF r = "throw" THEN OnFeatureError(point, fs, i)
       ELSE SearchFrom(point, fs, i + 1)

findWardForPoint(point, data) ==
  IF ~WellFormed(data) \/ point = NullObj THEN NullObj
  ELSE SearchFrom(point, data.features, 1)

\* a viewport box; null stands for an absent box
Box(south, west, north, east) ==
  [southWest |-> Point(south, west), northEast |-> Point(north, east)]

\* the same test with the boundary of the box left out
isPointInBoundsStrict(point, bounds) ==
  IF bounds = NullObj \/ point = NullObj THEN TRUE
  ELSE IF "southWest" \notin DOMAIN bounds \/ "northEast" \notin DOMAIN bounds
    THEN TRUE
  ELSE /\ point.latitude > bounds.southWest.latitude
       /\ point.latitude < bounds.northEast.latitude
       /\ point.longitude > bounds.southWest.longitude
       /\ point.longitude < bounds.northEast.longitude

\* reading a corner of a box that has none throws, and the catch answers true
isPointInBounds(point, bounds) ==
  IF bounds = NullObj \/ point = NullObj THEN TRUE
  ELSE IF "southWest" \notin DOMAIN bounds \/ "northEast" \notin DOMAIN bounds
    THEN TRUE
  ELSE /\ point.latitude >= bounds.southWest.latitude
       /\ point.latitude <= bounds.northEast.latitude
       /\ point.longitude >= bounds.southWest.longitude
       /\ point.longitude <= bounds.northEast.longitude

\* x || [] for an array x
OrEmpty(arr) == IF arr = NoArray THEN <<>> ELSE arr

\* a callback that looks at Polygon geometries only
FilterKeepsPolygonsOnly(feature, bounds) ==
  LET g == feature.geometry IN
  IF g = NoGeometry \/ "coordinates" \notin DOMAIN g THEN FALSE
  ELSE LET coordinates ==
             IF g.type = "Polygon" THEN OrEmpty(First(g.coordinates))
             ELSE <<>>
       IN  \E i \in 1..Len(coordinates) :
             isPointInBounds(Point(coordinates[i][2], coordinates[i][1]), bounds)

\* the callback of features.filter in filterGeoJSONByBounds
FilterKeeps(feature, bounds) ==
  LET g == feature.geometry IN
  IF g = NoGeometry \/ "coordinates" \notin DOMAIN g THEN FALSE
  ELSE LET coordinates ==
             IF g.type = "Polygon" THEN OrEmpty(First(g.coordinates))
             ELSE IF g.type = "MultiPolygon" THEN
               IF First(g.coordinates) = NoArray THEN <<>>
               ELSE OrEmpty(First(First(g.coordinates)))
             ELSE <<>>
       IN  \E i \in 1..Len(coordinates) :
             isPointInBounds(Point(coordinates[i][2], coordinates[i][1]), bounds)

\* features.filter(callback) from index i on
RECURSIVE FilterFrom(_, _, _)
FilterFrom(fs, bounds, i) ==
  IF i > Len(fs) THEN <<>>
  ELSE IF FilterKeeps(fs[i], bounds)
    THEN <<fs[i]>> \o FilterFrom(fs, bounds, i + 1)
    ELSE FilterFrom(fs, bounds, i + 1)

filterGeoJSONByBounds(geojson, bounds) ==
  IF bounds = NullObj \/ ~WellFormed(geojson) THEN geojson
  ELSE [geojson EXCEPT !.features = FilterFrom(geojson.features, bounds, 1)]

\* the simplify-geojson library on one ring, at a tolerance far below the
\* integer grid: a vertex stays unless it lies on the straight line through
\* its two neighbours; the end points always stay
Collinear(a, b, c) ==
  (b[1] - a[1]) * (c[2] - b[2]) = (b[2] - a[2]) * (c[1] - b[1])

RECURSIVE SimplifyRingFrom(_, _)
SimplifyRingFrom(ring, i) ==
  IF i > Len(ring) THEN <<>>
  ELSE IF i > 1 /\ i < Len(ring) /\ Collinear(ring[i - 1], ring[i], ring[i + 1])
    THEN SimplifyRingFrom(ring, i + 1)
    ELSE <<ring[i]>> \o SimplifyRingFrom(ring, i + 1)

SimplifyGeometry(g) ==
  IF "coordinates" \notin DOMAIN g THEN g
  ELSE IF g.type = "Polygon" THEN
    [g EXCEPT !.coordinates =
       [r \in 1..Len(g.coordinates) |-> SimplifyRingFrom(g.coordinates[r], 1)]]
  ELSE IF g.type = "MultiPolygon" THEN
    [g EXCEPT !.coordinates =
       [k \in 1..Len(g.coordinates) |->
          [r \in 1..Len(g.coordinates[k]) |->
             SimplifyRingFrom(g.coordinates[k][r], 1)]]]
  ELSE g

simplify(geojson) ==
  [geojson EXCEPT !.features =
     [i \in 1..Len(geojson.features) |->
        [geojson.features[i] EXCEPT
           !.geometry = SimplifyGeometry(geojson.features[i].geometry)]]]

\* simplifyGeoJSON: the library's result, or the original when it throws
simplifyGeoJSON(geojson, throws) ==
  IF throws THEN geojson ELSE simplify(geojson)

----------------------------------------------------------------------------
(* useWards.js *)

WardId(p) == Or(Or(Get(p, "id"), Get(p, "WARD_ID")), Get(p, "ward_id"))

WardName(p) ==
  Or(Or(Or(Get(p, "name"), Get(p, "WARD_NAME")), Get(p, "ward_name")),
     Str("Ward " \o Template(Or(Get(p, "WARD_ID"), Get(p, "ward_id")))))

WardMunicipality(p) ==
  Or(Or(Get(p, "municipality"), Get(p, "MUNICIPALITY")), Get(p, "mun_name"))

\* the record findWardByLocation builds from the resolved feature
WardRecord(ward) ==
  [id |-> WardId(ward.properties),
   name |-> WardName(ward.properties),
   municipality |-> WardMunicipality(ward.properties),
   properties |-> ward.properties]

\* the record getAllWards builds from one feature
WardListRecord(feature) ==
  [id |-> WardId(feature.properties),
   name |-> WardName(feature.properties),
   municipality |-> WardMunicipality(feature.properties),
   properties |-> feature.properties,
   geometry |-> feature.geometry]

\* a guard that does not look at the loading flag
LocationGuardIgnoresLoading(data, isLoading, latitude, longitude) ==
  ~(data = NullData \/ latitude = 0 \/ longitude = 0)

\* the guard of findWardByLocation: data held, not loading, and both
\* coordinates truthy
LocationGuard(data, isLoading, latitude, longitude) ==
  ~(data = NullData \/ isLoading \/ latitude = 0 \/ longitude = 0)

findWardByLocationIn(data, isLoading, latitude, longitude) ==
  IF ~LocationGuard(data, isLoading, latitude, longitude) THEN NullObj
  ELSE LET ward == findWardForPoint(Point(latitude, longitude), data) IN
       IF ward # NullObj THEN WardRecord(ward) ELSE NullObj

\* a list that leaves out the features without geometry
getAllWardsWithGeometry(data, isLoading) ==
  IF data = NullData \/ isLoading THEN <<>>
  ELSE IF ~WellFormed(data) THEN <<>>
  ELSE LET withGeometry ==
             SelectSeq(data.features, LAMBDA f : f.geometry # NoGeometry)
       IN  [i \in 1..Len(withGeometry) |-> WardListRecord(withGeometry[i])]

getAllWardsIn(data, isLoading) ==
  IF data = NullData \/ isLoading THEN <<>>
  ELSE IF ~WellFormed(data) THEN <<>>
  ELSE [i \in 1..Len(data.features) |-> WardListRecord(data.features[i])]

----------------------------------------------------------------------------
(* useGeoJSON.js: the cache slot *)

NoItem == [kind |-> "none"]
\* a stored blob that JSON.parse rejects
Garbage == [kind |-> "garbage"]

JSONstringify(v) == [kind |-> "json", text |-> v]
JSONparses(blob) == blob.kind = "json"
JSONparse(blob) == blob.text

CacheEntry(data, timestamp) == [data |-> data, timestamp |-> timestamp]
NoEntry == [data |-> NullData, timestamp |-> 0]

\* variant: the age is left in clock steps, not converted to hours
CacheAgeInSteps(t, timestamp) == t - timestamp

\* cacheAge of getCachedGeoJSON, in hours
CacheAge(t, timestamp) == (t - timestamp) * ClockStepHours

CacheExpired(age) == age > CACHE_EXPIRY_HOURS

----------------------------------------------------------------------------
(* useGeoJSON.js: loadGeoJSON *)

MaxLoads == 1 + MaxRefresh
LoadIds == 1..MaxLoads

TimeoutMessage == "Request timed out. Please check your internet connection."
\* err.message of the faults a fetch can end with
FaultMessage(fault) ==
  CASE fault = "http"    -> "Failed to fetch GeoJSON: 500"
    [] fault = "body"    -> "JSON Parse error: Unexpected token"
    [] OTHER             -> "The operation was aborted"

\* the catch block's choice of error text
ErrorText(fault) ==
  IF fault = "abort" THEN TimeoutMessage ELSE FaultMessage(fault)

\* the dataset the catch block installs
FallbackData == EmptyCollection

\* the locals of one invocation of loadGeoJSON and where it stands; result
\* tells how a finished invocation ended
\* what an earlier session of the app may have left in the slot: an entry
\* written one clock step before this session starts
PreviousSessionItem ==
  JSONstringify(CacheEntry(simplify(FeatureCollection(<<WardADense>>)), -1))

NoQuery == [phase |-> "off"]

IdleLoad ==
  [pc |-> "idle", entry |-> NoEntry, readNow |-> 0,
   rawGeoJSON |-> NullData, simplifiedGeoJSON |-> NullData,
   cacheData |-> NoItem, result |-> "none"]

\* an invocation that has returned: its locals are gone
Finished(result) == [IdleLoad EXCEPT !.pc = "done", !.result = result]

Init ==
  /\ geoJsonData = NullData
  /\ loading = FALSE
  /\ error = Null
  /\ storage \in {NoItem, Garbage, PreviousSessionItem}
  /\ storageOk = TRUE
  /\ now = 0
  /\ loads = [l \in LoadIds |-> IdleLoad]
  /\ nLoads = 0
  /\ pendingRemove = 0
  /\ unhandled = 0
  /\ fetches = 0
  /\ refreshes = 0
  /\ query = NoQuery

\* the synchronous head of loadGeoJSON, up to the await of getItem
StartLoad(l) ==
  /\ loading' = TRUE
  /\ error' = Null
  /\ loads' = [loads EXCEPT ![l] =
                 [IdleLoad EXCEPT !.pc = "getItem"]]
  /\ nLoads' = l

\* useEffect(() => { loadGeoJSON(); }, [])
Mount ==
  /\ nLoads = 0
  /\ StartLoad(1)
  /\ UNCHANGED <<geoJsonData, storage, storageOk, now, pendingRemove,
                 unhandled, fetches, refreshes,
                 query>>

\* refreshGeoJSON: removeItem is started and not awaited, then loadGeoJSON
refreshGeoJSON ==
  /\ nLoads >= 1
  /\ refreshes < MaxRefresh
  /\ pendingRemove' = pendingRemove + 1
  /\ refreshes' = refreshes + 1
  /\ StartLoad(nLoads + 1)
  /\ UNCHANGED <<geoJsonData, storage, storageOk, now, unhandled, fetches,
                 query>>

\* the removeItem of refreshGeoJSON is carried out; its promise has no
\* handler, so a rejection is unhandled
RefreshRemoveDone ==
  /\ pendingRemove > 0
  /\ pendingRemove' = pendingRemove - 1
  /\ IF storageOk
       THEN storage' = NoItem /\ UNCHANGED unhandled
       ELSE unhandled' = unhandled + 1 /\ UNCHANGED storage
  /\ UNCHANGED <<geoJsonData, loading, error, storageOk, now, loads, nLoads,
                 fetches, refreshes,
                 query>>

\* the cache missed: the timer is armed and the fetch is issued
IssueFetch(l, rec) ==
  /\ loads' = [loads EXCEPT ![l] = [rec EXCEPT !.pc = "fetch"]]
  /\ fetches' = fetches + 1
  /\ UNCHANGED <<geoJsonData, loading, error>>

\* variant: the return after a cache hit is missing, the fetch follows
CacheHitNoReturn(l, rec, data) ==
  /\ geoJsonData' = data
  /\ loading' = FALSE
  /\ loads' = [loads EXCEPT ![l] = [rec EXCEPT !.pc = "fetch", !.result = "cache"]]
  /\ fetches' = fetches + 1
  /\ UNCHANGED error

\* the cache hit: the cached dataset is installed and loadGeoJSON returns
CacheHit(l, rec, data) ==
  /\ geoJsonData' = data
  /\ loading' = FALSE
  /\ loads' = [loads EXCEPT ![l] = Finished("cache")]
  /\ UNCHANGED <<error, fetches>>

\* getItem completes inside getCachedGeoJSON
GetItemDone(l) ==
  /\ loads[l].pc = "getItem"
  /\ LET rec == loads[l] IN
     IF ~storageOk \/ storage = NoItem \/ ~JSONparses(storage)
       THEN IssueFetch(l, rec) /\ UNCHANGED storage
       ELSE LET e == JSONparse(storage)
                r == [rec EXCEPT !.entry = e, !.readNow = now]
            IN  IF CacheExpired(CacheAge(now, e.timestamp))
                  THEN /\ loads' = [loads EXCEPT ![l] =
                                      [r EXCEPT !.pc = "removeItem"]]
                       /\ UNCHANGED <<geoJsonData, loading, error, fetches,
                                      storage>>
                  ELSE CacheHit(l, r, e.data) /\ UNCHANGED storage
  /\ UNCHANGED <<storageOk, now, nLoads, pendingRemove, unhandled, refreshes,
                 query>>

\* the removeItem of an expired entry completes; either way null is returned
RemoveExpiredDone(l) ==
  /\ loads[l].pc = "removeItem"
  /\ storage' = IF storageOk THEN NoItem ELSE storage
  /\ IssueFetch(l, loads[l])
  /\ UNCHANGED <<storageOk, now, nLoads, pendingRemove, unhandled, refreshes,
                 query>>

\* variant: the catch block does not install the empty collection
LoadFailsNoFallback(l, fault) ==
  /\ error' = ErrorText(fault)
  /\ loading' = FALSE
  /\ loads' = [loads EXCEPT ![l] = Finished("failed")]
  /\ UNCHANGED <<geoJsonData, fetches>>

\* variant: there is no finally block, loading stays set after a failure
LoadFailsKeepsLoading(l, fault) ==
  /\ error' = ErrorText(fault)
  /\ geoJsonData' = FallbackData
  /\ loads' = [loads EXCEPT ![l] = Finished("failed")]
  /\ UNCHANGED <<loading, fetches>>

\* variant: the catch block issues the fetch again
LoadFailsRetries(l, fault) ==
  /\ error' = ErrorText(fault)
  /\ geoJsonData' = FallbackData
  /\ loading' = FALSE
  /\ loads' = [loads EXCEPT ![l].pc = "fetch"]
  /\ fetches' = fetches + 1

\* the catch and finally blocks of loadGeoJSON
LoadFails(l, fault) ==
  /\ error' = ErrorText(fault)
  /\ geoJsonData' = FallbackData
  /\ loading' = FALSE
  /\ loads' = [loads EXCEPT ![l] = Finished("failed")]
  /\ UNCHANGED fetches

FetchOutcomes == {"ok", "http", "abort"}

\* the fetch settles: a response arrives, or the request fails, or the
\* 30 s timer aborts it
FetchDone(l, outcome) ==
  /\ loads[l].pc = "fetch"
  /\ IF outcome = "ok"
       THEN /\ loads' = [loads EXCEPT ![l].pc = "json"]
            /\ UNCHANGED <<geoJsonData, loading, error, fetches>>
       ELSE LoadFails(l, outcome)
  /\ UNCHANGED <<storage, storageOk, now, nLoads, pendingRemove, unhandled,
                 refreshes, query>>

\* variant: the fallback collection is what gets serialised for the cache
CacheBlobFallback(data, t) == JSONstringify(CacheEntry(FallbackData, t))

\* the value handed to AsyncStorage.setItem by cacheGeoJSON
CacheBlob(data, t) == JSONstringify(CacheEntry(data, t))

\* variant: the raw dataset is cached instead of the simplified one
JsonDoneCachesRaw(l, raw, simplifyThrows) ==
  /\ loads[l].pc = "json"
  /\ LET simplified == simplifyGeoJSON(raw, simplifyThrows) IN
     loads' = [loads EXCEPT ![l] =
                 [@ EXCEPT !.pc = "setItem", !.rawGeoJSON = raw,
                           !.simplifiedGeoJSON = simplified,
                           !.cacheData = CacheBlob(raw, now)]]
  /\ UNCHANGED <<geoJsonData, loading, error, storage, storageOk, now, nLoads,
                 pendingRemove, unhandled, fetches, refreshes, query>>

\* response.json() resolves: simplify, then cacheGeoJSON up to its await
JsonDone(l, raw, simplifyThrows) ==
  /\ loads[l].pc = "json"
  /\ LET simplified == simplifyGeoJSON(raw, simplifyThrows) IN
     loads' = [loads EXCEPT ![l] =
                 [@ EXCEPT !.pc = "setItem", !.rawGeoJSON = raw,
                           !.simplifiedGeoJSON = simplified,
                           !.cacheData = CacheBlob(simplified, now)]]
  /\ UNCHANGED <<geoJsonData, loading, error, storage, storageOk, now, nLoads,
                 pendingRemove, unhandled, fetches, refreshes,
                 query>>

\* response.json() rejects: the body cannot be read or decoded
JsonFails(l) ==
  /\ loads[l].pc = "json"
  /\ LoadFails(l, "body")
  /\ UNCHANGED <<storage, storageOk, now, nLoads, pendingRemove, unhandled,
                 refreshes, query>>

\* setItem completes (a rejection is caught inside cacheGeoJSON), then the
\* dataset is installed and the finally block runs
SetItemDone(l) ==
  /\ loads[l].pc = "setItem"
  /\ storage' = IF storageOk THEN loads[l].cacheData ELSE storage
  /\ geoJsonData' = loads[l].simplifiedGeoJSON
  /\ loading' = FALSE
  /\ loads' = [loads EXCEPT ![l] = Finished("fetched")]
  /\ UNCHANGED <<error, storageOk, now, nLoads, pendingRemove, unhandled,
                 fetches, refreshes,
                 query>>

----------------------------------------------------------------------------
(* The environment *)

Tick ==
  /\ now < MaxTime
  /\ now' = now + 1
  /\ UNCHANGED <<geoJsonData, loading, error, storage, storageOk, loads,
                 nLoads, pendingRemove, unhandled, fetches, refreshes,
                 query>>

\* the persistence layer starts or stops failing
StorageFault ==
  /\ storageOk' = ~storageOk
  /\ UNCHANGED <<geoJsonData, loading, error, storage, now, loads, nLoads,
                 pendingRemove, unhandled, fetches, refreshes,
                 query>>

Next ==
  \/ Mount
  \/ refreshGeoJSON
  \/ RefreshRemoveDone
  \/ \E l \in LoadIds : GetItemDone(l)
  \/ \E l \in LoadIds : RemoveExpiredDone(l)
  \/ \E l \in LoadIds, outcome \in FetchOutcomes : FetchDone(l, outcome)
  \/ \E l \in LoadIds, raw \in RemoteDatasets, simplifyThrows \in BOOLEAN :
       JsonDone(l, raw, simplifyThrows)
  \/ \E l \in LoadIds : JsonFails(l)
  \/ \E l \in LoadIds : SetItemDone(l)
  \/ Tick
  \/ StorageFault

Spec == Init /\ [][Next]_vars

\* what the scheduling guarantees: the effect runs after mount, a storage
\* operation settles, and a fetch settles because the 30 s timer aborts it.
\* The timer is cleared as soon as fetch resolves (clearTimeout, line 42), so
\* nothing makes response.json() settle
Scheduling ==
  /\ WF_vars(Mount)
  /\ WF_vars(RefreshRemoveDone)
  /\ \A l \in LoadIds :
       /\ WF_vars(GetItemDone(l))
       /\ WF_vars(RemoveExpiredDone(l))
       /\ WF_vars(\E outcome \in FetchOutcomes : FetchDone(l, outcome))
       /\ WF_vars(SetItemDone(l))

SpecLive == Spec /\ Scheduling

----------------------------------------------------------------------------
(* OptimizedMapView.js: the map view over one pipeline. Its state is kept   *)
(* in the record query: mapReady, mapBounds, currentRegion, the timers of   *)
(* the debounced handler, and what the calls so far have been               *)

MaxCalls == 3
ViewStepMs == 250
DEBOUNCE_WAIT == 500

Region(lat, lng, latDelta, lngDelta) ==
  [latitude |-> lat, longitude |-> lng,
   latitudeDelta |-> latDelta, longitudeDelta |-> lngDelta]

\* the default initialRegion, in whole degrees
InitialRegion == Region(-26, 28, 2, 2)
\* a region around the square ward and one away from it
Regions == { Region(0, 0, 4, 4), Region(5, 5, 2, 2) }

\* the bounds the handler computes from a region
BoundsOf(region) ==
  [northEast |-> Point(region.latitude + region.latitudeDelta \div 2,
                       region.longitude + region.longitudeDelta \div 2),
   southWest |-> Point(region.latitude - region.latitudeDelta \div 2,
                       region.longitude - region.longitudeDelta \div 2)]

\* a memo that is not recomputed when the bounds change
filteredGeoJSONStale(data, mapBounds) == data

\* the useMemo of useGeoJSON: what the hook returns as geoJsonData
filteredGeoJSON(data, mapBounds) ==
  IF data = NullData \/ mapBounds = NullObj THEN data
  ELSE filterGeoJSONByBounds(data, mapBounds)

\* clearTimeout(id): an id that is not pending is ignored
ClearTimeout(timers, id) == { t \in timers : t.id # id }

\* a debounced function that does not clear the pending timer on a call
executedFunctionNoClear(view, args) ==
  [view EXCEPT !.timers = view.timers \cup
                           {[id |-> view.calls + 1, args |-> args, elapsed |-> 0]},
               !.timeout = view.calls + 1,
               !.calls = view.calls + 1,
               !.lastArgs = args, !.quiet = 0, !.invoked = 0]

\* executedFunction(...args) of debounce: the pending timer is cleared and
\* a new one is set for later; calls, lastArgs, quiet and invoked record the
\* call
executedFunction(view, args) ==
  [view EXCEPT !.timers = ClearTimeout(view.timers, view.timeout) \cup
                           {[id |-> view.calls + 1, args |-> args, elapsed |-> 0]},
               !.timeout = view.calls + 1,
               !.calls = view.calls + 1,
               !.lastArgs = args, !.quiet = 0, !.invoked = 0]

\* later() of debounce for timer t, with func the handler of the map view:
\* setCurrentRegion and setMapBounds
Later(view, t) ==
  [view EXCEPT !.timers = ClearTimeout(view.timers \ {t}, view.timeout),
               !.currentRegion = t.args,
               !.mapBounds = BoundsOf(t.args),
               !.invoked = view.invoked + 1]

\* the timer steps after which a timer set with DEBOUNCE_WAIT is due
Due(elapsed) == elapsed * ViewStepMs >= DEBOUNCE_WAIT
DueSteps == CHOOSE n \in 1..DEBOUNCE_WAIT : Due(n) /\ ~Due(n - 1)

InitialView ==
  [phase |-> "view", mapReady |-> FALSE, mapBounds |-> NullObj,
   currentRegion |-> InitialRegion, timers |-> {}, timeout |-> 0,
   calls |-> 0, lastArgs |-> InitialRegion, quiet |-> 0, invoked |-> 0]

InitView ==
  /\ geoJsonData = NullData
  /\ loading = FALSE
  /\ error = Null
  /\ storage \in {NoItem, Garbage, PreviousSessionItem}
  /\ storageOk = TRUE
  /\ now = 0
  /\ loads = [l \in LoadIds |-> IdleLoad]
  /\ nLoads = 0
  /\ pendingRemove = 0
  /\ unhandled = 0
  /\ fetches = 0
  /\ refreshes = 0
  /\ query = InitialView

\* onMapReady
handleMapReady ==
  /\ ~query.mapReady
  /\ query' = [query EXCEPT !.mapReady = TRUE]
  /\ UNCHANGED pipeline

\* onRegionChangeComplete with the map ready: the debounced handler is
\* called (before the map is ready the event is dropped)
handleRegionChangeComplete(region) ==
  /\ query.mapReady
  /\ query.calls < MaxCalls
  /\ query' = executedFunction(query, region)
  /\ UNCHANGED pipeline

\* time passes for the pending timers
Elapse ==
  /\ query.quiet < DueSteps
  /\ query.calls > 0
  /\ query' = [query EXCEPT
                 !.quiet = query.quiet + 1,
                 !.timers = { [t EXCEPT !.elapsed = t.elapsed + 1] :
                              t \in query.timers }]
  /\ UNCHANGED pipeline

\* a timer that is due runs its callback
TimerFires ==
  /\ \E t \in query.timers :
       /\ Due(t.elapsed)
       /\ query' = Later(query, t)
  /\ UNCHANGED pipeline

\* the map view over the load the pipeline starts at mount
NextView ==
  \/ Mount
  \/ \E l \in LoadIds : GetItemDone(l)
  \/ \E l \in LoadIds : RemoveExpiredDone(l)
  \/ \E l \in LoadIds, outcome \in FetchOutcomes : FetchDone(l, outcome)
  \/ \E l \in LoadIds, raw \in RemoteDatasets, simplifyThrows \in BOOLEAN :
       JsonDone(l, raw, simplifyThrows)
  \/ \E l \in LoadIds : JsonFails(l)
  \/ \E l \in LoadIds : SetItemDone(l)
  \/ Tick
  \/ StorageFault
  \/ handleMapReady
  \/ \E region \in Regions : handleRegionChangeComplete(region)
  \/ Elapse
  \/ TimerFires

SpecView == InitView /\ [][NextView]_vars

----------------------------------------------------------------------------
(* The geometry functions on their own: one call with inputs drawn from     *)
(* bounded sets                                                             *)

FeatureNoGeometry == Feature(NoGeometry, PropsC)

\* a ward over lon in [0, 3], lat in [-1, 1]: it overlaps both squares
WideRing == << <<0, -1>>, <<3, -1>>, <<3, 1>>, <<0, 1>>, <<0, -1>> >>
WardWide == Feature(Polygon(<<WideRing>>), [id |-> Num(4), name |-> Str("Wide")])

\* a ward of two parts: the eastern square first, then the square at the origin
WardMulti ==
  Feature(MultiPolygon(<< <<EastRing>>, <<SquareRing>> >>), [WARD_ID |-> Num(5)])

\* a ward whose coordinates are no degrees: its latitudes lie beyond 90
FarRing == << <<0, 91>>, <<1, 91>>, <<1, 92>>, <<0, 91>> >>
WardFar == Feature(Polygon(<<FarRing>>), [id |-> Num(6)])

GeoFeatures ==
  {WardA, WardB, WardBroken, FeatureNoGeometry, WardWide, WardMulti, WardFar}

RECURSIVE SeqsUpTo(_, _)
SeqsUpTo(S, n) ==
  IF n = 0 THEN {<<>>}
  ELSE LET shorter == SeqsUpTo(S, n - 1) IN
       shorter \cup { Append(q, x) : q \in shorter, x \in S }

GeoDatasets == { FeatureCollection(fs) : fs \in SeqsUpTo(GeoFeatures, MaxFeatures) }

GridLat == -2..2
GridLng == -2..5
GeoPoints == { Point(lat, lng) : lat \in GridLat, lng \in GridLng }

ResolveInputs ==
  { [phase |-> "input", data |-> d, point |-> pt, found |-> NullObj] :
      d \in GeoDatasets, pt \in GeoPoints }

\* rings for isPointInPolygon: convex polygons with vertices on a small
\* grid, in either winding order, with and without the closing vertex
MaxRingLen == 4
RingCoords == 0..2
RingVertices == { <<x, y>> : x \in RingCoords, y \in RingCoords }

\* twice the signed area of the triangle a, b, c
Cross(a, b, c) ==
  (b[1] - a[1]) * (c[2] - a[2]) - (b[2] - a[2]) * (c[1] - a[1])

NextIndex(ring, i) == IF i = Len(ring) THEN 1 ELSE i + 1

\* every other vertex lies strictly on side s (1: left, -1: right) of every
\* edge: the vertices are in convex position and listed along the boundary
ConvexWith(ring, s) ==
  \A i \in 1..Len(ring) : \A k \in 1..Len(ring) :
    (k # i /\ k # NextIndex(ring, i))
      => s * Cross(ring[i], ring[NextIndex(ring, i)], ring[k]) > 0

\* the sequences of n vertices that turn to side s at every inner vertex
RECURSIVE TurningChains(_, _)
TurningChains(n, s) ==
  IF n = 2 THEN { <<a, b>> : a \in RingVertices, b \in RingVertices }
  ELSE UNION { { Append(c, v) :
                   v \in { w \in RingVertices :
                             s * Cross(c[n - 2], c[n - 1], w) > 0 } } :
               c \in TurningChains(n - 1, s) }

OpenConvexRings ==
  UNION { { r \in TurningChains(n, s) : ConvexWith(r, s) } :
          n \in 3..MaxRingLen, s \in {1, -1} }

Closed(ring) == Append(ring, ring[1])

ConvexRings == OpenConvexRings \cup { Closed(r) : r \in OpenConvexRings }

PointCoords == -1..3
RingPoints == { Point(lat, lng) : lat \in PointCoords, lng \in PointCoords }

\* rings of fewer than three vertices
ShortRings == SeqsUpTo(RingVertices, 2)

RingInputs ==
  { [phase |-> "ring", ring |-> r, point |-> pt] :
      r \in ConvexRings, pt \in RingPoints }

\* boxes for filterGeoJSONByBounds: the whole world, boxes with corners on
\* and next to the wards' vertices, a box without its south-west corner
FullWorldBox == Box(-90, -180, 90, 180)
BoxLats == {-2, 0, 1}
BoxLngs == {-2, 1, 5}
SmallBoxes ==
  { Box(s, w, n, e) : s \in BoxLats, w \in BoxLngs,
                      n \in BoxLats, e \in BoxLngs }
BrokenBox == [northEast |-> Point(1, 1)]

FilterInputs ==
  { [phase |-> "filter", data |-> d, bounds |-> b] :
      d \in GeoDatasets, b \in SmallBoxes \cup {FullWorldBox} }

NoBoxInputs ==
  { [phase |-> "filter", data |-> d, bounds |-> NullObj] : d \in GeoDatasets }

BrokenBoxInputs ==
  { [phase |-> "filter", data |-> d, bounds |-> BrokenBox] : d \in GeoDatasets }

NoDataInputs ==
  { [phase |-> "filter", data |-> NullData, bounds |-> b] :
      b \in {FullWorldBox, Box(0, 1, 1, 5)} }

\* property maps for the ward records: every subset of the nine keys the
\* facade reads, each present key with a falsy or a truthy value
IdKeys == <<"id", "WARD_ID", "ward_id">>
NameKeys == <<"name", "WARD_NAME", "ward_name">>
MunicipalityKeys == <<"municipality", "MUNICIPALITY", "mun_name">>
PropertyKeys ==
  { IdKeys[i] : i \in 1..3 } \cup { NameKeys[i] : i \in 1..3 }
    \cup { MunicipalityKeys[i] : i \in 1..3 }

\* the value a key carries: an id is a number (0 when falsy), a name or a
\* municipality a string ("" when falsy); truthy values tell the keys apart
PropertyValue(k, truthy) ==
  IF \E i \in 1..3 : IdKeys[i] = k
    THEN (IF truthy THEN Num(CHOOSE i \in 1..3 : IdKeys[i] = k) ELSE Num(0))
    ELSE (IF truthy THEN Str(k) ELSE Str(""))

PropertyMaps ==
  { [k \in { x \in PropertyKeys : c[x] # "absent" } |->
       PropertyValue(k, c[k] = "truthy")] :
      c \in [PropertyKeys -> {"absent", "falsy", "truthy"}] }

PropsInputs == { [phase |-> "props", props |-> p] : p \in PropertyMaps }

\* the ward that carries the property map: a square with (1, 1) inside
HomeRing == << <<0, 0>>, <<2, 0>>, <<2, 2>>, <<0, 2>>, <<0, 0>> >>
WardWith(p) == Feature(Polygon(<<HomeRing>>), p)

ShortRingInputs ==
  { [phase |-> "ring", ring |-> r, point |-> pt] :
      r \in ShortRings, pt \in RingPoints }

NullRingInputs ==
  { [phase |-> "ring", ring |-> NoArray, point |-> pt] : pt \in RingPoints }

NullPointInputs ==
  { [phase |-> "ring", ring |-> r, point |-> NullObj] :
      r \in ShortRings \cup { Closed(SquareRing), SquareRing } }

NullBothInput == [phase |-> "ring", ring |-> NoArray, point |-> NullObj]

\* inputs for resolving against the filtered dataset: the whole world, a box
\* west of the wide ward that touches the square, a box over the eastern
\* square, a box north of every ward; points along the wards' middle line
LocateBoxes ==
  { FullWorldBox, Box(-2, -2, 1, -1), Box(-1, 2, 1, 4), Box(2, -2, 3, 5) }
LocatePoints == { Point(0, lng) : lng \in GridLng }

LocateInputs ==
  { [phase |-> "locate", data |-> d, bounds |-> b, point |-> pt] :
      d \in GeoDatasets, b \in LocateBoxes, pt \in LocatePoints }

InitGeo ==
  /\ geoJsonData = NullData
  /\ loading = FALSE
  /\ error = Null
  /\ storage = NoItem
  /\ storageOk = TRUE
  /\ now = 0
  /\ loads = [l \in LoadIds |-> IdleLoad]
  /\ nLoads = 0
  /\ pendingRemove = 0
  /\ unhandled = 0
  /\ fetches = 0
  /\ refreshes = 0
  /\ \/ query \in ResolveInputs
     \/ query \in RingInputs
     \/ query \in ShortRingInputs
     \/ query \in NullRingInputs
     \/ query \in NullPointInputs
     \/ query = NullBothInput
     \/ query \in FilterInputs
     \/ query \in NoBoxInputs
     \/ query \in BrokenBoxInputs
     \/ query \in NoDataInputs
     \/ query \in PropsInputs
     \/ query \in LocateInputs

\* a caller applies findWardForPoint
Resolve ==
  /\ query.phase = "input"
  /\ query' = [query EXCEPT !.phase = "resolved",
                            !.found = findWardForPoint(query.point, query.data)]
  /\ UNCHANGED pipeline

\* a caller applies isPointInPolygon
TestRing ==
  /\ query.phase = "ring"
  /\ query' = [phase |-> "tested", ring |-> query.ring, point |-> query.point,
               inside |-> isPointInPolygon(query.point, query.ring)]
  /\ UNCHANGED pipeline

\* a caller applies filterGeoJSONByBounds
Filter ==
  /\ query.phase = "filter"
  /\ query' = [phase |-> "filtered", data |-> query.data,
               bounds |-> query.bounds,
               result |-> filterGeoJSONByBounds(query.data, query.bounds)]
  /\ UNCHANGED pipeline

\* a caller of the facade, the dataset held and not loading, resolves a
\* point inside the ward and lists the wards
Normalize ==
  /\ query.phase = "props"
  /\ LET held == FeatureCollection(<<WardWith(query.props)>>) IN
     query' = [phase |-> "normalized", props |-> query.props,
               record |-> findWardByLocationIn(held, FALSE, 1, 1),
               listed |-> getAllWardsIn(held, FALSE)]
  /\ UNCHANGED pipeline

\* a caller of the facade, the dataset held and not loading, lists the wards
ListWards ==
  /\ query.phase = "input"
  /\ query' = [phase |-> "listed", data |-> query.data,
               wards |-> getAllWardsIn(query.data, FALSE)]
  /\ UNCHANGED pipeline

\* a caller applies findWardForPoint to what the hook exposes for the box,
\* and to the held dataset
ResolveFiltered ==
  /\ query.phase = "locate"
  /\ LET filtered == filteredGeoJSON(query.data, query.bounds) IN
     query' = [phase |-> "located", data |-> query.data,
               bounds |-> query.bounds, point |-> query.point,
               filtered |-> filtered,
               found |-> findWardForPoint(query.point, filtered),
               foundHeld |-> findWardForPoint(query.point, query.data)]
  /\ UNCHANGED pipeline

NextGeo ==
  Resolve \/ TestRing \/ Filter \/ Normalize \/ ListWards \/ ResolveFiltered

SpecGeo == InitGeo /\ [][NextGeo]_vars

----------------------------------------------------------------------------
(* Properties *)

InFlight(l) == loads[l].pc \notin {"idle", "done"}
NoLoadInFlight == \A l \in LoadIds : ~InFlight(l)
SomeLoadDone == \E l \in LoadIds : loads[l].pc = "done"

\* the pipeline's states once every started load has returned
Ready == SomeLoadDone /\ NoLoadInFlight /\ ~loading /\ error = Null
Degraded == SomeLoadDone /\ NoLoadInFlight /\ ~loading /\ error # Null

\* the step in which invocation l of loadGeoJSON returns
Returns(l) == loads[l].pc # "done" /\ loads'[l].pc = "done"

\* C1: once a load has completed, by cache hit, successful fetch, timeout or
\* transport failure, the held dataset is a non-null well-formed
\* FeatureCollection, and the load ended inside loadGeoJSON (by return or in
\* its catch block), never by a fault passed to the caller
C1_AlwaysUsableDataset ==
  \A l \in LoadIds :
    loads[l].pc = "done" =>
      /\ loads[l].result \in {"cache", "fetched", "failed"}
      /\ geoJsonData # NullData
      /\ WellFormed(geoJsonData)

C1_Witness ==
  /\ \E l \in LoadIds : loads[l].result = "failed"
  /\ \E l \in LoadIds : loads[l].result = "cache"
  /\ NoLoadInFlight
  /\ geoJsonData = EmptyCollection

\* C2: the load started by refreshGeoJSON misses the cache and fetches; it
\* never ends by a cache hit
C2_RefreshMissesCache ==
  \A l \in LoadIds : (l > 1 /\ loads[l].pc = "done") => loads[l].result # "cache"

\* C3: a load whose fetch times out or fails in transport ends degraded:
\* loading false, a non-empty error string, exactly the empty
\* FeatureCollection held, and getAllWards returning the empty sequence
C3_FailureEndsDegraded ==
  [][\A l \in LoadIds :
       (loads[l].pc \in {"fetch", "json"} /\ loads'[l].result = "failed") =>
         /\ loading' = FALSE
         /\ error' # Null /\ error' # ""
         /\ geoJsonData' = [type |-> "FeatureCollection", features |-> <<>>]
         /\ getAllWardsIn(geoJsonData', loading') = <<>>]_vars

C3_Witness ==
  /\ \E l \in LoadIds : loads[l].result = "failed"
  /\ NoLoadInFlight
  /\ error = TimeoutMessage
  /\ geoJsonData = EmptyCollection
  /\ ~loading
  /\ getAllWardsIn(geoJsonData, loading) = <<>>

\* the age in hours of the entry in the slot
SlotAge == (now - JSONparse(storage).timestamp) * ClockStepHours

\* C4: with the persistence layer working, a read of an entry younger than
\* 24 hours returns its dataset (the load installs it and returns); a read
\* of an entry older than 24 hours returns none (the load goes on to fetch)
\* after deleting the entry, which leaves the slot empty
C4_TtlOnRead ==
  [][\A l \in LoadIds :
       /\ (/\ loads[l].pc = "getItem" /\ loads'[l].pc # "getItem"
           /\ storageOk /\ JSONparses(storage))
          => /\ SlotAge < 24 =>
                  /\ loads'[l].result = "cache"
                  /\ geoJsonData' = JSONparse(storage).data
             /\ SlotAge > 24 =>
                  /\ loads'[l].pc = "removeItem"
                  /\ geoJsonData' = geoJsonData
       /\ (/\ loads[l].pc = "removeItem" /\ loads'[l].pc # "removeItem"
           /\ storageOk)
          => /\ storage' = NoItem
             /\ loads'[l].pc = "fetch"
             /\ geoJsonData' = geoJsonData]_vars

C4_Witness ==
  \E l \in LoadIds :
    /\ loads[l].pc = "fetch"
    /\ (loads[l].readNow - loads[l].entry.timestamp) * ClockStepHours > 24
    /\ storage = NoItem
    /\ storageOk

\* reference containment for the axis-parallel rectangular rings of the
\* wards: the extent of a ring and a point's position against it
RingMin(ring, k) == CHOOSE m \in {ring[i][k] : i \in 1..Len(ring)} :
                      \A i \in 1..Len(ring) : m <= ring[i][k]
RingMax(ring, k) == CHOOSE m \in {ring[i][k] : i \in 1..Len(ring)} :
                      \A i \in 1..Len(ring) : m >= ring[i][k]

StrictlyInside(lat, lng, ring) ==
  /\ RingMin(ring, 1) < lng /\ lng < RingMax(ring, 1)
  /\ RingMin(ring, 2) < lat /\ lat < RingMax(ring, 2)

StrictlyOutside(lat, lng, ring) ==
  \/ lng < RingMin(ring, 1) \/ lng > RingMax(ring, 1)
  \/ lat < RingMin(ring, 2) \/ lat > RingMax(ring, 2)

OuterRing(feature) == feature.geometry.coordinates[1]

QueryCoords == -2..5

\* C5: once the pipeline is ready, findWardByLocation(lat, lng) is the
\* normalized record of the ward whose outer ring strictly contains the
\* point, and null when the point is strictly outside every ward, for every
\* point including those with latitude 0 or longitude 0
C5_ResolveWardEverywhere ==
  Ready =>
    \A lat \in QueryCoords, lng \in QueryCoords :
      LET fs == geoJsonData.features
          r == findWardByLocationIn(geoJsonData, loading, lat, lng)
      IN  /\ \A i \in 1..Len(fs) :
               StrictlyInside(lat, lng, OuterRing(fs[i])) => r = WardRecord(fs[i])
          /\ (\A i \in 1..Len(fs) : StrictlyOutside(lat, lng, OuterRing(fs[i])))
               => r = NullObj

\* C6: a load whose cache read returned a valid entry installs exactly that
\* dataset, returns at once and issues no fetch, then or later
C6_CacheHitSkipsNetwork ==
  /\ [](\A l \in LoadIds : loads[l].result = "cache" => loads[l].pc = "done")
  /\ [][\A l \in LoadIds :
          (loads[l].pc = "getItem" /\ loads'[l].result = "cache") =>
            /\ fetches' = fetches
            /\ geoJsonData' = JSONparse(storage).data
            /\ loading' = FALSE]_vars

C6_Witness ==
  /\ Ready
  /\ \E l \in LoadIds : loads[l].result = "cache"
  /\ geoJsonData = JSONparse(PreviousSessionItem).data
  /\ fetches = 0

\* C7: the fetches issued never exceed 1 plus the refreshGeoJSON calls, a
\* step in which a load fails issues no fetch, and from the degraded state
\* (every started load returned, an error held) no step issues a fetch: only
\* a new refreshGeoJSON call starts a load that can
C7_NoAutomaticRetry ==
  /\ [](fetches <= 1 + refreshes)
  /\ [][(\E l \in LoadIds : Returns(l) /\ loads'[l].result = "failed")
          => fetches' = fetches]_vars
  /\ [][Degraded => (fetches' = fetches /\ (~NoLoadInFlight' => refreshes' = refreshes + 1))]_vars

C7_Witness ==
  /\ Degraded
  /\ refreshes = 1
  /\ fetches = 2
  /\ \A l \in LoadIds : loads[l].result = "failed"

\* C8: the step that stores the fetched dataset caches simplifyGeoJSON's
\* result for the decoded dataset, and the held dataset changes to that same
\* dataset only in the step in which the cache write has finished, not
\* while the load decodes, simplifies or waits for the write
C8_SimplifyCacheReady ==
  [][\A l \in LoadIds :
       /\ (loads[l].pc = "json" /\ loads'[l].pc = "setItem")
          => /\ geoJsonData' = geoJsonData
             /\ loading' = loading
             /\ storage' = storage
             /\ loads'[l].simplifiedGeoJSON
                  \in {simplify(loads'[l].rawGeoJSON), loads'[l].rawGeoJSON}
       /\ (loads[l].pc = "setItem" /\ loads'[l].pc # "setItem")
          => /\ loads'[l].result = "fetched"
             /\ geoJsonData' = loads[l].simplifiedGeoJSON
             /\ loading' = FALSE
             /\ storageOk =>
                  /\ JSONparses(storage')
                  /\ JSONparse(storage').data = loads[l].simplifiedGeoJSON
                  /\ JSONparse(storage').data = geoJsonData']_vars

C8_Witness ==
  /\ Ready
  /\ \E l \in LoadIds : loads[l].result = "fetched"
  /\ JSONparses(storage)
  /\ JSONparse(storage).timestamp > 0
  /\ JSONparse(storage).data = geoJsonData
  /\ geoJsonData = simplify(FeatureCollection(<<WardADense>>))

\* C9: with the persistence layer failing, a read counts as a miss and the
\* load goes on to fetch, a write changes nothing and the load still ends
\* with the fetched dataset held, and no storage operation, the removeItem of
\* refreshGeoJSON included, leaves a rejection unhandled
C9_CacheFailSoft ==
  /\ [](unhandled = 0)
  /\ [][\A l \in LoadIds :
          /\ (loads[l].pc \in {"getItem", "removeItem"} /\ ~storageOk
                /\ loads'[l].pc # loads[l].pc)
             => loads'[l].pc = "fetch" /\ storage' = storage
          /\ (loads[l].pc = "setItem" /\ ~storageOk /\ loads'[l].pc # "setItem")
             => /\ storage' = storage
                /\ loads'[l].result = "fetched"
                /\ geoJsonData' = loads[l].simplifiedGeoJSON
                /\ loading' = FALSE
                /\ error' = Null]_vars

\* a feature whose geometry can be tested: a Polygon with its coordinates
ValidPolygon(f) ==
  f.geometry.type = "Polygon" /\ "coordinates" \in DOMAIN f.geometry

Malformed(f) ==
  f.geometry # NoGeometry /\ "coordinates" \notin DOMAIN f.geometry

\* C10: when a malformed feature is followed by a valid feature whose outer
\* ring contains the point, and no feature before that one contains it,
\* findWardForPoint skips the malformed feature and returns the valid one
C10_MalformedSkippedPerFeature ==
  query.phase = "resolved" =>
    \A i, j \in 1..Len(query.data.features) :
      LET fs == query.data.features IN
      (/\ i < j
       /\ Malformed(fs[i])
       /\ ValidPolygon(fs[j])
       /\ isPointInPolygon(query.point, OuterRing(fs[j]))
       /\ \A k \in 1..(j - 1) :
            ValidPolygon(fs[k]) => ~isPointInPolygon(query.point, OuterRing(fs[k])))
      => query.found = fs[j]

\* the feature has a geometry findWardForPoint can test, and one of its
\* outer rings contains the point
Contains(pt, f) ==
  /\ f.geometry # NoGeometry
  /\ "coordinates" \in DOMAIN f.geometry
  /\ \/ /\ f.geometry.type = "Polygon"
        /\ isPointInPolygon(pt, First(f.geometry.coordinates))
     \/ /\ f.geometry.type = "MultiPolygon"
        /\ \E k \in 1..Len(f.geometry.coordinates) :
             isPointInPolygon(pt, First(f.geometry.coordinates[k]))

\* C11: findWardForPoint returns the first feature, in dataset order, that
\* contains the point: of two features that both contain it, the one with
\* the smaller index
C11_FirstMatchWins ==
  query.phase = "resolved" =>
    \A i \in 1..Len(query.data.features) :
      LET fs == query.data.features IN
      (/\ Contains(query.point, fs[i])
       /\ \A k \in 1..(i - 1) : ~Contains(query.point, fs[k]))
      => query.found = fs[i]

\* C12: a MultiPolygon feature matches the point exactly when the outer ring
\* of one of its polygons, at any index, contains the point (the feature is
\* the first of the dataset that can match)
C12_MultiPolygonAnyPart ==
  query.phase = "resolved" =>
    \A i \in 1..Len(query.data.features) :
      LET fs    == query.data.features
          polys == fs[i].geometry.coordinates
          lat   == query.point.latitude
          lng   == query.point.longitude
      IN
      (/\ fs[i].geometry # NoGeometry
       /\ fs[i].geometry.type = "MultiPolygon"
       /\ \A k \in 1..(i - 1) :
            ~Malformed(fs[k]) /\ ~Contains(query.point, fs[k]))
      => /\ (\E k \in 1..Len(polys) : StrictlyInside(lat, lng, polys[k][1]))
              => query.found = fs[i]
         /\ (\A k \in 1..Len(polys) : StrictlyOutside(lat, lng, polys[k][1]))
              => query.found # fs[i]

\* the point lies in the second polygon of the ward only, and the ward is
\* returned
C12_Witness ==
  /\ query.phase = "resolved"
  /\ query.data.features = <<WardMulti>>
  /\ query.point = Point(0, 0)
  /\ StrictlyOutside(0, 0, WardMulti.geometry.coordinates[1][1])
  /\ StrictlyInside(0, 0, WardMulti.geometry.coordinates[2][1])
  /\ query.found = WardMulti

\* the side of the ring's edges on which its interior lies
Interior(ring) == IF ConvexWith(ring, 1) THEN 1 ELSE -1

\* the ring without its closing vertex
Opened(ring) ==
  IF ring[Len(ring)] = ring[1] THEN SubSeq(ring, 1, Len(ring) - 1) ELSE ring

InsideConvex(pt, ring) ==
  LET r == Opened(ring)
      p == <<pt.longitude, pt.latitude>>
  IN  \A i \in 1..Len(r) :
        Interior(r) * Cross(r[i], r[NextIndex(r, i)], p) > 0

OutsideConvex(pt, ring) ==
  LET r == Opened(ring)
      p == <<pt.longitude, pt.latitude>>
  IN  \E i \in 1..Len(r) :
        Interior(r) * Cross(r[i], r[NextIndex(r, i)], p) < 0

\* C13: for a convex ring, in either winding order and with or without the
\* closing vertex, isPointInPolygon is true for every point strictly inside
\* and false for every point strictly outside
C13_ConvexRingParity ==
  (query.phase = "tested" /\ query.ring \in ConvexRings) =>
    /\ InsideConvex(query.point, query.ring) => query.inside
    /\ OutsideConvex(query.point, query.ring) => ~query.inside

\* a clockwise ring without closing vertex and a point strictly inside it
C13_Witness ==
  /\ query.phase = "tested"
  /\ query.ring = << <<0, 0>>, <<0, 2>>, <<2, 2>>, <<2, 0>> >>
  /\ ConvexWith(query.ring, -1)
  /\ query.point = Point(1, 1)
  /\ InsideConvex(query.point, query.ring)
  /\ query.inside

\* C14: isPointInPolygon answers false for a null point, for a null ring and
\* for a ring of fewer than three vertices
C14_DegenerateIsOutside ==
  (/\ query.phase = "tested"
   /\ \/ query.point = NullObj
      \/ query.ring = NoArray
      \/ Len(query.ring) < 3)
  => query.inside = FALSE

\* a null point was tested against a ring that is in order
C14_Witness ==
  /\ query.phase = "tested"
  /\ query.point = NullObj
  /\ query.ring = SquareRing
  /\ query.inside = FALSE

\* the coordinates of the feature's first ring: the outer ring of a Polygon,
\* the outer ring of the first polygon of a MultiPolygon
FirstRing(f) ==
  IF f.geometry = NoGeometry \/ "coordinates" \notin DOMAIN f.geometry
    THEN <<>>
  ELSE IF Len(f.geometry.coordinates) = 0 THEN <<>>
  ELSE IF f.geometry.type = "Polygon" THEN f.geometry.coordinates[1]
  ELSE IF Len(f.geometry.coordinates[1]) = 0 THEN <<>>
  ELSE f.geometry.coordinates[1][1]

\* a coordinate pair <<lng, lat>> lies in the box, its boundary included
InBox(c, b) ==
  /\ b.southWest.latitude <= c[2] /\ c[2] <= b.northEast.latitude
  /\ b.southWest.longitude <= c[1] /\ c[1] <= b.northEast.longitude

TouchesBox(f, b) == \E i \in 1..Len(FirstRing(f)) : InBox(FirstRing(f)[i], b)

IsBox(b) == b # NullObj /\ DOMAIN b = {"southWest", "northEast"}

\* res is the sub-sequence of fs at the indices in kept, in the order of fs
SubSequenceAt(res, fs, kept) ==
  /\ Len(res) = Cardinality(kept)
  /\ \A i \in kept : res[Cardinality({ k \in kept : k <= i })] = fs[i]

\* C15 as stated: filtered by the whole-world box, a dataset keeps its
\* feature sequence: every feature, same content, same order
C15_WorldBoxKeepsAll ==
  (/\ query.phase = "filtered"
   /\ query.bounds = FullWorldBox
   /\ WellFormed(query.data))
  => query.result.features = query.data.features

\* the feature has a first ring with a coordinate of latitude in [-90, 90]
\* and longitude in [-180, 180]
HasWorldCoordinate(f) ==
  \E i \in 1..Len(FirstRing(f)) :
    LET c == FirstRing(f)[i] IN
    -90 <= c[2] /\ c[2] <= 90 /\ -180 <= c[1] /\ c[1] <= 180

\* C15, amended: filtered by the whole-world box, a dataset keeps, in order
\* and unchanged, exactly its features that have a first ring with a
\* coordinate in the world's range; it keeps its whole feature sequence when
\* every feature has one
C15_WorldBoxKeepsFeaturesWithRing ==
  (/\ query.phase = "filtered"
   /\ query.bounds = FullWorldBox
   /\ WellFormed(query.data))
  => LET fs == query.data.features
         withRing == { i \in 1..Len(fs) : HasWorldCoordinate(fs[i]) }
     IN  /\ SubSequenceAt(query.result.features, fs, withRing)
         /\ withRing = 1..Len(fs) => query.result.features = fs
         /\ query.result.type = query.data.type

\* two wards, the second a MultiPolygon, pass the whole-world box
C15_Witness ==
  /\ query.phase = "filtered"
  /\ query.bounds = FullWorldBox
  /\ query.data.features = <<WardA, WardMulti>>
  /\ query.result.features = <<WardA, WardMulti>>

\* C16: with a box, filterGeoJSONByBounds keeps exactly the features with a
\* coordinate of their first ring in the box, boundary included, in dataset
\* order; without a box it returns the dataset as it is
C16_FilterByFirstRing ==
  (query.phase = "filtered" /\ WellFormed(query.data)) =>
    /\ IsBox(query.bounds) =>
         LET fs == query.data.features
             touching == { i \in 1..Len(fs) : TouchesBox(fs[i], query.bounds) }
         IN  SubSequenceAt(query.result.features, fs, touching)
    /\ query.bounds = NullObj => query.result = query.data

\* the box meets the first ward at one vertex on the box's boundary only and
\* misses the second ward: the first is kept, the second dropped
C16_Witness ==
  /\ query.phase = "filtered"
  /\ query.bounds = Box(1, 1, 1, 1)
  /\ query.data.features = <<WardA, WardB>>
  /\ TouchesBox(WardA, query.bounds) /\ ~TouchesBox(WardB, query.bounds)
  /\ query.result.features = <<WardA>>

\* C17: before the first load and while the loading flag is up, also when
\* refreshGeoJSON raised it over a held dataset, findWardByLocation returns
\* null for every point and getAllWards returns the empty list
C17_NoWardsWhileLoading ==
  (nLoads = 0 \/ loading) =>
    /\ \A lat \in QueryCoords : \A lng \in QueryCoords :
         findWardByLocationIn(geoJsonData, loading, lat, lng) = NullObj
    /\ getAllWardsIn(geoJsonData, loading) = <<>>

\* a refresh is loading over the dataset the first load installed; when
\* not loading that dataset resolves a point and lists a ward
C17_Witness ==
  /\ loading
  /\ refreshes > 0
  /\ WellFormed(geoJsonData) /\ Len(geoJsonData.features) > 0
  /\ \E lat \in QueryCoords : \E lng \in QueryCoords :
       /\ findWardByLocationIn(geoJsonData, FALSE, lat, lng) # NullObj
       /\ findWardByLocationIn(geoJsonData, loading, lat, lng) = NullObj
  /\ getAllWardsIn(geoJsonData, FALSE) # <<>>
  /\ getAllWardsIn(geoJsonData, loading) = <<>>

NoKeyOf(keys, p) == \A i \in 1..Len(keys) : keys[i] \notin DOMAIN p

\* the value of the first key of the list that is present in p
FirstPresent(keys, p) ==
  IF NoKeyOf(keys, p) THEN Undef
  ELSE p[keys[CHOOSE i \in 1..Len(keys) :
                 /\ keys[i] \in DOMAIN p
                 /\ \A k \in 1..(i - 1) : keys[k] \notin DOMAIN p]]

\* C18: when the properties have none of the name keys, the record's name is
\* "Ward " followed by the id the record reports, whichever id key gave it
C18_FallbackNameUsesReportedId ==
  (query.phase = "normalized" /\ NoKeyOf(NameKeys, query.props)) =>
    /\ query.record # NullObj
    /\ query.record.name = Str("Ward " \o Template(query.record.id))
    /\ Len(query.listed) = 1
    /\ query.listed[1].name = Str("Ward " \o Template(query.listed[1].id))

\* C19: the id, the name and the municipality of a record are each the value
\* of the first key present in the properties, in the fixed order of the
\* field's keys, whatever that value is
C19_FirstPresentKeyWins ==
  query.phase = "normalized" =>
    /\ query.record # NullObj
    /\ query.record.id = FirstPresent(IdKeys, query.props)
    /\ query.record.municipality = FirstPresent(MunicipalityKeys, query.props)
    /\ ~NoKeyOf(NameKeys, query.props)
         => query.record.name = FirstPresent(NameKeys, query.props)

\* C20: with a dataset held and no load running, getAllWards returns one
\* record per feature, in dataset order: record i carries the properties and
\* the geometry of feature i and the id, name and municipality that
\* findWardByLocation reports for that feature
C20_ListFollowsDataset ==
  query.phase = "listed" =>
    LET fs == query.data.features IN
    /\ Len(query.wards) = Len(fs)
    /\ \A i \in 1..Len(fs) :
         /\ query.wards[i].properties = fs[i].properties
         /\ query.wards[i].geometry = fs[i].geometry
         /\ query.wards[i].id = WardRecord(fs[i]).id
         /\ query.wards[i].name = WardRecord(fs[i]).name
         /\ query.wards[i].municipality = WardRecord(fs[i]).municipality

\* two wards listed in the order of the dataset, the first of them without
\* geometry
C20_Witness ==
  /\ query.phase = "listed"
  /\ query.data.features = <<FeatureNoGeometry, WardA>>
  /\ Len(query.wards) = 2
  /\ query.wards[1].id = Num(3) /\ query.wards[1].name = Str("Gamma")
  /\ query.wards[2].id = Num(1) /\ query.wards[2].name = Str("Alpha")

Exposed == filteredGeoJSON(geoJsonData, query.mapBounds)

SimplifyFailed(rec) == rec.simplifiedGeoJSON # simplify(rec.rawGeoJSON)

\* C23: when the library fails on a fetched dataset, simplifyGeoJSON hands
\* back the original, which is what the load serialises for the cache, and
\* the load ends with that original held and cached, loading cleared and no
\* error held
C23_SimplifyFailureKeepsOriginal ==
  [][\A l \in LoadIds :
       /\ (loads[l].pc = "json" /\ loads'[l].pc = "setItem"
             /\ SimplifyFailed(loads'[l]))
          => /\ loads'[l].simplifiedGeoJSON = loads'[l].rawGeoJSON
             /\ loads'[l].cacheData = CacheBlob(loads'[l].rawGeoJSON, now)
       /\ (loads[l].pc = "setItem" /\ loads'[l].pc # "setItem"
             /\ SimplifyFailed(loads[l]))
          => /\ loads'[l].result = "fetched"
             /\ geoJsonData' = loads[l].rawGeoJSON
             /\ loading' = FALSE
             /\ error' = Null
             /\ storageOk => /\ JSONparses(storage')
                             /\ JSONparse(storage').data = loads[l].rawGeoJSON]_vars


\* C24: loading is set in every state in which an invocation of loadGeoJSON
\* has not returned yet, and clear only when none is in flight
C24_LoadingWhileInFlight ==
  (\E l \in LoadIds : InFlight(l)) => loading

\* C25: once every started load has returned after a refresh, the held
\* dataset and error are those the most recently started load produced,
\* whichever load returned last
C25_LastStartedLoadWins ==
  [][\A l \in LoadIds :
       (Returns(l) /\ l < nLoads /\ loads[nLoads].pc = "done")
         => (geoJsonData' = geoJsonData /\ error' = error)]_vars


\* C26: with loading clear and a load returned, an error is held only along
\* with the empty collection of a failed load, and a load that returns with
\* the cached or the fetched dataset leaves no error held
C26_ErrorMatchesDataset ==
  /\ []((~loading /\ SomeLoadDone /\ error # Null)
          => /\ geoJsonData = FallbackData
             /\ \E l \in LoadIds : loads[l].result = "failed")
  /\ [][\A l \in LoadIds :
          (Returns(l) /\ loads'[l].result \in {"cache", "fetched"})
            => error' = Null]_vars


\* what a cache entry can hold: simplifyGeoJSON's result for a dataset the
\* remote source served
CacheableDatasets ==
  { simplifyGeoJSON(raw, throws) : raw \in RemoteDatasets, throws \in BOOLEAN }

\* every entry in the slot holds a fetched and simplified dataset
SlotHoldsFetched ==
  JSONparses(storage) => JSONparse(storage).data \in CacheableDatasets

FuncInvoked == query.phase = "view" /\ query'.invoked = query.invoked + 1

\* C28: func runs only when DEBOUNCE_WAIT ms have passed since the most
\* recent call of the debounced function, once for that call at most, and
\* with that call's arguments: the region and the bounds of the map view
\* are set from the last region of a burst, and the bounds change in no
\* other step
C28_DebounceLastCallOnly ==
  /\ [][FuncInvoked
          => /\ query.calls > 0
             /\ query.quiet * ViewStepMs >= DEBOUNCE_WAIT
             /\ query.invoked = 0
             /\ query'.currentRegion = query.lastArgs
             /\ query'.mapBounds = BoundsOf(query.lastArgs)]_vars
  /\ [][(query.phase = "view" /\ query'.mapBounds # query.mapBounds)
          => FuncInvoked]_vars

\* after a burst of calls the handler has run once, for the last region
C28_Witness ==
  /\ query.phase = "view"
  /\ query.calls = MaxCalls
  /\ query.invoked = 1
  /\ query.timers = {}
  /\ query.lastArgs = Region(5, 5, 2, 2)
  /\ query.currentRegion = query.lastArgs
  /\ query.mapBounds = BoundsOf(query.lastArgs)


\* C29: the feature findWardForPoint returns for a point over the dataset
\* filtered by a box is none or the feature it returns for that point over
\* the whole dataset
C29_FilterKeepsResolution ==
  query.phase = "located" =>
    (query.found = NullObj \/ query.found = query.foundHeld)

====
